---------------------------- MODULE Spec2Model ----------------------------
(***************************************************************************)
(* Headset battery notifier (src/src/main.rs).                             *)
(*                                                                         *)
(* The program polls `headsetcontrol -b`, splits its output at "Found",    *)
(* parses every chunk into a Device snapshot, compares the snapshot with   *)
(* the record remembered under the same name in a HashMap, sends desktop   *)
(* notifications through `notify-send`, and stores the snapshot.           *)
(*                                                                         *)
(* Representation.  A Rust string that the program PARSES (the raw output, *)
(* a chunk, a line, a device name) is a sequence of one-character strings, *)
(* so that split, trim, replace and parse are computed character by        *)
(* character.  A string the program only BUILDS (a notification body, an   *)
(* icon name) is a TLA+ string.  Option<T> is a sequence of length 0       *)
(* (None) or 1 (Some(v)).                                                  *)
(***************************************************************************)
EXTENDS Integers, Sequences, FiniteSets, TLC

VARIABLES
    devices,    \* main's HashMap<String, Device>: a function name -> Device
    cycle,      \* what the last poll_devices call did, one entry per chunk
    crashed,    \* "no", or the collaborator whose failure made the process panic
    output,     \* the text the last poll_devices call got from headsetcontrol
    notified    \* the titles notify-send has been invoked with so far

vars == <<devices, cycle, crashed, output, notified>>

None == <<>>
Some(v) == <<v>>
unwrap(o) == o[1]

-----------------------------------------------------------------------------
(* Text literals of the program and of the status source.                  *)

Found == <<"F", "o", "u", "n", "d">>
StatusAvailable ==
    <<"S", "t", "a", "t", "u", "s", ":", " ", "B", "A", "T", "T", "E", "R",
      "Y", "_", "A", "V", "A", "I", "L", "A", "B", "L", "E">>
StatusCharging ==
    <<"S", "t", "a", "t", "u", "s", ":", " ", "B", "A", "T", "T", "E", "R",
      "Y", "_", "C", "H", "A", "R", "G", "I", "N", "G">>
LevelLabel == <<"L", "e", "v", "e", "l", ":", " ">>
Bang == <<"!">>
Space == <<" ">>
Percent == <<"%">>
Paren == <<"(">>
Newline == <<"\n">>

-----------------------------------------------------------------------------
(* The str methods the parser uses, computed on character sequences.       *)

starts_with(s, p) == Len(p) <= Len(s) /\ SubSeq(s, 1, Len(p)) = p

ends_with(s, p) ==
    Len(p) <= Len(s) /\ SubSeq(s, Len(s) - Len(p) + 1, Len(s)) = p

\* str::find: the index of the first occurrence of p in s, 0 when there is none.
find(s, p) ==
    LET hits == {i \in 1..(Len(s) - Len(p) + 1) : SubSeq(s, i, i + Len(p) - 1) = p}
    IN  IF hits = {} THEN 0 ELSE CHOOSE i \in hits : \A j \in hits : i <= j

contains(s, p) == find(s, p) # 0

\* str::split(pattern): the pieces between the non-overlapping occurrences of
\* the pattern, scanning from the left; always at least one piece.
RECURSIVE split(_, _)
split(s, p) ==
    LET i == find(s, p)
    IN  IF i = 0 THEN <<s>>
        ELSE <<SubSeq(s, 1, i - 1)>> \o split(SubSeq(s, i + Len(p), Len(s)), p)

strip_cr(l) ==
    IF l # <<>> /\ l[Len(l)] = "\r" THEN SubSeq(l, 1, Len(l) - 1) ELSE l

\* str::lines: split at "\n"; a "\r" right before a "\n" belongs to the line
\* ending, a final empty piece is not a line, and a final piece that no "\n"
\* follows is kept as it is, a "\r" at its end included.
lines(s) ==
    LET ps    == split(s, Newline)
        n     == Len(ps)
        ended == [i \in 1..(n - 1) |-> strip_cr(ps[i])]
    IN  IF ps[n] = <<>> THEN ended ELSE Append(ended, ps[n])

\* The characters str::trim removes (char::is_whitespace, the Unicode
\* White_Space property): U+0009 to U+000D, the space, U+0085, U+00A0 and
\* U+1680.  The remaining White_Space characters (U+2000 to U+200A, U+2028,
\* U+2029, U+202F, U+205F, U+3000) cannot be written in a string of this
\* module and so occur in no text of the model.
White == {"\t", "\n", "", "\f", "\r", " ", "", " ", " "}

RECURSIVE trim_start(_)
trim_start(s) ==
    IF s # <<>> /\ Head(s) \in White THEN trim_start(Tail(s)) ELSE s

RECURSIVE trim_end(_)
trim_end(s) ==
    IF s # <<>> /\ s[Len(s)] \in White
    THEN trim_end(SubSeq(s, 1, Len(s) - 1)) ELSE s

trim(s) == trim_end(trim_start(s))

\* str::trim_end_matches(char): every trailing occurrence is removed.
RECURSIVE trim_end_matches(_, _)
trim_end_matches(s, c) ==
    IF s # <<>> /\ s[Len(s)] = c
    THEN trim_end_matches(SubSeq(s, 1, Len(s) - 1), c) ELSE s

\* str::replace(from, to): every non-overlapping occurrence, from the left.
RECURSIVE replace(_, _, _)
replace(s, from, to) ==
    LET i == find(s, from)
    IN  IF i = 0 THEN s
        ELSE SubSeq(s, 1, i - 1) \o to
             \o replace(SubSeq(s, i + Len(from), Len(s)), from, to)

Digits == <<"0", "1", "2", "3", "4", "5", "6", "7", "8", "9">>
IsDigit(c) == \E i \in 1..10 : Digits[i] = c
DigitVal(c) == (CHOOSE i \in 1..10 : Digits[i] = c) - 1

RECURSIVE DecimalValue(_)
DecimalValue(ds) ==
    IF ds = <<>> THEN 0
    ELSE 10 * DecimalValue(SubSeq(ds, 1, Len(ds) - 1)) + DigitVal(ds[Len(ds)])

U8Max == 255

\* str::parse::<u8>().ok(): an optional "+", then one or more decimal digits
\* whose value fits in a u8; anything else (empty, a sign alone, another
\* character, a value above 255) is an error, which .ok() turns into None.
parse_u8(s) ==
    LET ds == IF s # <<>> /\ Head(s) = "+" THEN Tail(s) ELSE s
    IN  IF ds = <<>> \/ \E i \in 1..Len(ds) : ~IsDigit(ds[i]) THEN None
        ELSE IF DecimalValue(ds) > U8Max THEN None
        ELSE Some(DecimalValue(ds))

-----------------------------------------------------------------------------
(* Config, BatteryStatus and Device (main.rs 9-37, 51-55).                 *)

polling_interval == 5000
battery_threshold == 10
config ==
    [polling_interval |-> polling_interval, debug |-> TRUE,
     battery_threshold |-> battery_threshold]

BatteryStatus == {"Charging", "Discharging", "Disconnected"}

Device(name, status, battery, last) ==
    [name |-> name, battery_status |-> status, battery |-> battery,
     last_notif_battery_level |-> last]

-----------------------------------------------------------------------------
(* parse_device (main.rs 93-132).                                          *)

\* line.trim().replace("Level: ", "").replace('%', ""), the text handed to parse.
level_text(line) ==
    replace(replace(trim(line), LevelLabel, <<>>), Percent, <<>>)

\* One iteration of the loop over device_str.lines(): the first matching
\* branch of the if / else-if chain acts on the line.
parse_line(device, line) ==
    IF contains(line, StatusAvailable)
    THEN [device EXCEPT !.battery_status = "Discharging"]
    ELSE IF contains(line, StatusCharging)
    THEN [device EXCEPT !.battery_status = "Charging"]
    ELSE IF ends_with(line, Bang) /\ starts_with(line, Space)
    THEN [device EXCEPT !.name = trim_end_matches(trim(line), "!")]
    ELSE IF contains(line, LevelLabel)
    THEN [device EXCEPT !.battery = parse_u8(level_text(line))]
    ELSE device

RECURSIVE parse_lines(_, _)
parse_lines(device, ls) ==
    IF ls = <<>> THEN device
    ELSE parse_lines(parse_line(device, Head(ls)), Tail(ls))

\* name.split('(').next().unwrap_or("").trim()
strip_suffix(name) == trim(Head(split(name, Paren)))

is_invalid_name_only(device) == device.name = <<>>

\* The validity test of lines 118-122, made on the name as read from the
\* name line, before the parenthetical suffix is cut off.
is_invalid(device) ==
    \/ device.name = <<>>
    \/ device.battery_status = "Disconnected" /\ device.battery = None

parse_device(device_str) ==
    LET device == parse_lines(Device(<<>>, "Disconnected", None, None),
                              lines(device_str))
    IN  IF is_invalid(device) THEN None
        ELSE Some([device EXCEPT !.name = strip_suffix(device.name)])

-----------------------------------------------------------------------------
(* send_notification (main.rs 234-256).                                    *)
(*                                                                         *)
(* A run r carries what update_device works on: r.device is new_device,    *)
(* r.sent the notify-send invocations of this update in order, r.calls the *)
(* number of invocations made in this poll, r.panicked whether the thread  *)
(* has panicked.  r.fail_at and r.exit are the sink's behaviour: the       *)
(* fail_at-th invocation of the poll cannot be started (0: all start), and *)
(* a started notify-send exits with status r.exit.  An invocation records  *)
(* its position among the invocations of the poll in seq.                  *)

NOTIFICATION_ICONS ==
    {"dialog-information", "battery-caution", "battery-low", "battery"}

\* Command::output() returns Err when the process cannot be started, and
\* .expect panics on it; an Ok(Output), whatever its exit status, is dropped
\* by `let _ =`.
send_notification(r, name, content, icon) ==
    LET ic      == IF icon \in NOTIFICATION_ICONS THEN icon
                   ELSE "dialog-information"
        n       == r.calls + 1
        started == r.fail_at # n
        cmd     == [seq    |-> n, title |-> name, body |-> content,
                    icon   |-> "--icon=" \o ic,
                    result |-> IF started THEN Some(r.exit) ELSE None]
    IN  [r EXCEPT !.sent = Append(@, cmd), !.calls = n, !.panicked = ~started]

-----------------------------------------------------------------------------
(* The decision engine (main.rs 135-231).  After a panic nothing of the    *)
(* remaining code runs, so every step after a send_notification is taken   *)
(* only when the run has not panicked.                                     *)

fmt_level(content, battery) == content \o ToString(battery) \o "%"

set_last(r, last) == [r EXCEPT !.device.last_notif_battery_level = last]

handle_new_device(r) ==
    LET r1 == send_notification(r, r.device.name, "New device connected",
                                "battery")
    IN  IF r1.panicked \/ r1.device.battery = None THEN r1
        ELSE send_notification(set_last(r1, r1.device.battery),
                 r1.device.name,
                 fmt_level("Battery level: ", unwrap(r1.device.battery)),
                 "battery")

handle_device_status_change(old_device, r) ==
    IF /\ old_device.battery_status # "Disconnected"
       /\ r.device.battery_status = "Disconnected"
    THEN send_notification(set_last(r, None), r.device.name,
                           "Device disconnected", "battery-caution")
    ELSE IF /\ old_device.battery_status = "Disconnected"
            /\ r.device.battery_status # "Disconnected"
    THEN LET r1 == send_notification(r, r.device.name,
                                     "New device connected", "battery")
         IN  IF r1.panicked \/ r1.device.battery = None THEN r1
             ELSE send_notification(set_last(r1, r1.device.battery),
                      r1.device.name,
                      fmt_level("Battery level: ", unwrap(r1.device.battery)),
                      "battery")
    ELSE r

handle_discharging_marks_threshold(cfg, r, battery) ==
    IF battery < cfg.battery_threshold
    THEN send_notification(set_last(r, Some(cfg.battery_threshold)),
                           r.device.name,
                           fmt_level("Battery level low: ", battery),
                           "battery-low")
    ELSE IF battery % 5 = 0
    THEN send_notification(set_last(r, Some(battery)), r.device.name,
                           fmt_level("Battery level: ", battery), "battery")
    ELSE r

handle_discharging(cfg, r, battery) ==
    IF battery < cfg.battery_threshold
    THEN send_notification(set_last(r, Some(battery)), r.device.name,
                           fmt_level("Battery level low: ", battery),
                           "battery-low")
    ELSE IF battery % 5 = 0
    THEN send_notification(set_last(r, Some(battery)), r.device.name,
                           fmt_level("Battery level: ", battery), "battery")
    ELSE r

handle_charging_unthrottled(r, battery) ==
    IF battery = 100
    THEN send_notification(set_last(r, Some(battery)), r.device.name,
                           fmt_level("Battery level full: ", battery),
                           "battery")
    ELSE send_notification(set_last(r, Some(battery)), r.device.name,
                           fmt_level("Charging ", battery), "battery")

handle_charging(r, battery) ==
    IF battery = 100
    THEN send_notification(set_last(r, Some(battery)), r.device.name,
                           fmt_level("Battery level full: ", battery),
                           "battery")
    ELSE IF battery % 5 = 0
    THEN send_notification(set_last(r, Some(battery)), r.device.name,
                           fmt_level("Charging ", battery), "battery")
    ELSE r

handle_battery_level_change_noisy(cfg, old_device, r) ==
    IF old_device.battery # None /\ r.device.battery # None
    THEN LET old_battery == unwrap(old_device.battery)
             new_battery == unwrap(r.device.battery)
         IN  IF /\ r.device.battery_status = "Discharging"
                /\ new_battery <= old_battery
             THEN handle_discharging(cfg, r, new_battery)
             ELSE IF /\ r.device.battery_status = "Charging"
                     /\ new_battery >= old_battery
             THEN handle_charging(r, new_battery)
             ELSE r
    ELSE r

handle_battery_level_change(cfg, old_device, r) ==
    IF old_device.battery # None /\ r.device.battery # None
    THEN LET old_battery == unwrap(old_device.battery)
             new_battery == unwrap(r.device.battery)
         IN  IF /\ r.device.battery_status = "Discharging"
                /\ new_battery < old_battery
             THEN handle_discharging(cfg, r, new_battery)
             ELSE IF /\ r.device.battery_status = "Charging"
                     /\ new_battery > old_battery
             THEN handle_charging(r, new_battery)
             ELSE r
    ELSE r

\* devices.get(name)
get(devs, name) == IF name \in DOMAIN devs THEN Some(devs[name]) ELSE None

insert_alone(devs, name, device) == [k \in {name} |-> device]

\* devices.insert(name, device)
insert(devs, name, device) ==
    [k \in DOMAIN devs \cup {name} |-> IF k = name THEN device ELSE devs[k]]

gate_closed_never(old_device, new_device) == FALSE

\* The early return of lines 137-139.
gate_closed(old_device, new_device) ==
    old_device.last_notif_battery_level # new_device.last_notif_battery_level

update_device_level_first(cfg, devs, r) ==
    LET old == get(devs, r.device.name)
        gated == old # None /\ gate_closed(unwrap(old), r.device)
        r1 == IF old = None THEN r
              ELSE handle_battery_level_change(cfg, unwrap(old), r)
        r2 == IF r1.panicked THEN r1
              ELSE IF old = None THEN handle_new_device(r1)
              ELSE handle_device_status_change(unwrap(old), r1)
    IN  IF gated THEN [devices |-> devs, run |-> r, outcome |-> "gated"]
        ELSE IF r2.panicked
        THEN [devices |-> devs, run |-> r2, outcome |-> "panicked"]
        ELSE [devices |-> insert(devs, r2.device.name, r2.device),
              run |-> r2, outcome |-> "inserted"]

\* update_device: the map afterwards, the run afterwards, and whether the
\* function returned at line 138 ("gated"), reached the insert of line 147
\* ("inserted") or panicked on the way ("panicked").
update_device(cfg, devs, r) ==
    LET old == get(devs, r.device.name)
        gated == old # None /\ gate_closed(unwrap(old), r.device)
        r1 == IF old = None THEN handle_new_device(r)
              ELSE handle_device_status_change(unwrap(old), r)
        r2 == IF old = None \/ r1.panicked THEN r1
              ELSE handle_battery_level_change(cfg, unwrap(old), r1)
    IN  IF gated THEN [devices |-> devs, run |-> r, outcome |-> "gated"]
        ELSE IF r2.panicked
        THEN [devices |-> devs, run |-> r2, outcome |-> "panicked"]
        ELSE [devices |-> insert(devs, r2.device.name, r2.device),
              run |-> r2, outcome |-> "inserted"]

-----------------------------------------------------------------------------
(* The inputs: what `headsetcontrol -b` prints and how notify-send behaves. *)

MaxChunks == 2      \* device blocks in one output
MaxFailAt == 2      \* latest notify-send invocation of a poll that fails to start

StatusUnavailable ==
    <<"S", "t", "a", "t", "u", "s", ":", " ", "B", "A", "T", "T", "E", "R",
      "Y", "_", "U", "N", "A", "V", "A", "I", "L", "A", "B", "L", "E">>
BatteryHeader == <<"B", "a", "t", "t", "e", "r", "y", ":">>
Tab == <<"\t">>
NoDeviceOutput ==
    <<"N", "o", " ", "s", "u", "p", "p", "o", "r", "t", "e", "d", " ", "d",
      "e", "v", "i", "c", "e", " ", "f", "o", "u", "n", "d", "\n">>

NameH     == <<" ", "H", " ", "(", "w", "i", "r", "e", "l", "e", "s", "s", ")", "!">>
NameK     == <<" ", "K", "!">>
NameParen == <<" ", "(", "w", "i", "r", "e", "l", "e", "s", "s", ")", "!">>
NoName    == <<>>

\* The text of one device block as headsetcontrol prints it after "Found":
\* the name line, "Battery:", a status line and, when level is Some(text),
\* a "Level: text%" line.
Block(name_line, status_line, level) ==
    name_line \o Newline \o BatteryHeader \o Newline
    \o Tab \o status_line \o Newline
    \o (IF level = None THEN <<>>
        ELSE Tab \o LevelLabel \o unwrap(level) \o Percent \o Newline)

SampleBlocks ==
    {Block(NameH, StatusAvailable, l) :
        l \in {None, Some(<<"9">>), Some(<<"1", "0">>), Some(<<"1", "1">>),
               Some(<<"x">>)}}
    \cup {Block(NameH, StatusCharging, l) :
        l \in {Some(<<"1", "0">>), Some(<<"1", "1">>), Some(<<"1", "0", "0">>),
               Some(<<"1", "2", "0">>)}}
    \cup {Block(NameH, StatusUnavailable, l) :
        l \in {None, Some(<<"1", "0">>), Some(<<"1", "1">>)}}
    \cup {Block(NameK, StatusAvailable, l) : l \in {None, Some(<<"1", "0">>)}}
    \cup {Block(NameParen, StatusAvailable, Some(<<"1", "0">>)),
          Block(NoName, StatusAvailable, Some(<<"1", "0">>))}

\* The blocks of the outputs that report more than one device.
MultiBlocks ==
    {Block(NameH, StatusAvailable, None),
     Block(NameK, StatusAvailable, Some(<<"1", "0">>))}

RECURSIVE Concat(_)
Concat(blocks) ==
    IF blocks = <<>> THEN <<>>
    ELSE Found \o Head(blocks) \o Concat(Tail(blocks))

Outputs ==
    {<<>>, NoDeviceOutput}
    \cup {Concat(<<b>>) : b \in SampleBlocks}
    \cup UNION {{Concat(bs) : bs \in [1..n -> MultiBlocks]} : n \in 2..MaxChunks}

\* The sink during one poll: every notify-send starts and exits with 0, or
\* every one starts and exits with 1, or the fail_at-th cannot be started.
Sinks ==
    {[fail_at |-> 0, exit |-> 0], [fail_at |-> 0, exit |-> 1]}
    \cup {[fail_at |-> k, exit |-> 0] : k \in 1..MaxFailAt}

\* The chunks poll_devices iterates over: the non-empty pieces between the
\* occurrences of "Found" (lines 68 and 70).
chunks_of(hsc_output) == SelectSeq(split(hsc_output, Found), LAMBDA l : l # <<>>)

\* The characters of a text as one TLA+ string, the form in which `cycle`
\* keeps the text of a chunk.
RECURSIVE text(_)
text(cs) ==
    IF cs = <<>> THEN ""
    ELSE IF Len(cs) = 1 THEN cs[1]
    ELSE LET h == Len(cs) \div 2
         IN  text(SubSeq(cs, 1, h)) \o text(SubSeq(cs, h + 1, Len(cs)))

\* chunks_of, parse_device and text tabulated over the sample inputs.  The
\* tables hold the values of the operators and nothing else; a constant
\* definition is evaluated once, which spares parsing the same text again in
\* every state.
SampleChunkLists == [o \in Outputs |-> chunks_of(o)]
SampleChunks ==
    UNION {{SampleChunkLists[o][i] : i \in 1..Len(SampleChunkLists[o])} :
              o \in Outputs}
SampleSnapshots == [c \in SampleChunks |-> parse_device(c)]
SampleTexts == [c \in SampleChunks |-> text(c)]

\* The text of an output, put together from the texts of the pieces between
\* its occurrences of "Found": the value of text on the whole output.
RECURSIVE joined(_)
joined(pieces) ==
    IF pieces = <<>> THEN ""
    ELSE IF Len(pieces) = 1
    THEN (IF pieces[1] \in SampleChunks THEN SampleTexts[pieces[1]]
          ELSE text(pieces[1]))
    ELSE joined(<<Head(pieces)>>) \o "Found" \o joined(Tail(pieces))
OutputTexts == [o \in Outputs |-> joined(split(o, Found))]


hsc_output_lines(hsc_output) ==
    IF hsc_output \in Outputs THEN SampleChunkLists[hsc_output]
    ELSE chunks_of(hsc_output)

shown(chunk) ==
    IF chunk \in SampleChunks THEN SampleTexts[chunk] ELSE text(chunk)

shown_output(hsc_output) ==
    IF hsc_output \in Outputs THEN OutputTexts[hsc_output] ELSE text(hsc_output)

parse(chunk) ==
    IF chunk \in SampleChunks THEN SampleSnapshots[chunk]
    ELSE parse_device(chunk)

-----------------------------------------------------------------------------
(* poll_devices (main.rs 66-81) and main (main.rs 49-63).                  *)

\* What the loop body of lines 70-74 did with one chunk: the snapshot parsed
\* from it, the record found under its name, the notify-send invocations,
\* how update_device ended, and the record under that name afterwards.
\* A chunk that parse_device rejects is "skipped".
Entry(chunk, snapshot, old, sent, outcome, record) ==
    [chunk |-> shown(chunk), snapshot |-> snapshot, old |-> old, sent |-> sent,
     outcome |-> outcome, record |-> record]

\* The run in which update_device starts on new_device.
new_run(new_device, calls, fail_at, exit) ==
    [device |-> new_device, sent |-> <<>>, calls |-> calls,
     panicked |-> FALSE, fail_at |-> fail_at, exit |-> exit]

process_chunk(cfg, p, chunk, fail_at, exit) ==
    LET parsed == parse(chunk)
        r0 == new_run(unwrap(parsed), p.calls, fail_at, exit)
        u  == update_device(cfg, p.devices, r0)
    IN  IF parsed = None
        THEN [p EXCEPT !.log = Append(@, Entry(chunk, None, None, <<>>,
                                               "skipped", None))]
        ELSE [devices  |-> u.devices,
              log      |-> Append(p.log,
                               Entry(chunk, parsed,
                                     get(p.devices, r0.device.name),
                                     u.run.sent, u.outcome,
                                     get(u.devices, r0.device.name))),
              calls    |-> u.run.calls,
              panicked |-> u.run.panicked]

RECURSIVE process_chunks(_, _, _, _, _)
process_chunks(cfg, p, chunks, fail_at, exit) ==
    IF chunks = <<>> \/ p.panicked THEN p
    ELSE process_chunks(cfg, process_chunk(cfg, p, Head(chunks), fail_at, exit),
                        Tail(chunks), fail_at, exit)

\* The titles of the notify-send invocations of a log.
titles(log) ==
    UNION {{log[i].sent[k].title : k \in DOMAIN log[i].sent} : i \in DOMAIN log}

\* The loop over the chunks; the debug dump of lines 76-80 follows it (dump).
poll_devices(cfg, devs, hsc_output, fail_at, exit) ==
    process_chunks(cfg,
        [devices |-> devs, log |-> <<>>, calls |-> 0, panicked |-> FALSE],
        hsc_output_lines(hsc_output), fail_at, exit)

\* The debug dump of lines 76-80, reached when no update has panicked:
\* with config.debug it prints every record of the map, and println! panics
\* when stdout cannot be written.  It changes nothing else.
dump(cfg, p, stdout_ok) ==
    ~p.panicked /\ cfg.debug /\ DOMAIN p.devices # {} /\ ~stdout_ok

-----------------------------------------------------------------------------
(* The program.                                                            *)

\* main up to its loop (lines 50-57): the banner is printed, and println!
\* panics when stdout cannot be written, before the map exists to any
\* effect and before the first poll; otherwise the map starts empty.
Init ==
    /\ devices = <<>>
    /\ cycle = <<>>
    /\ crashed \in {"no", "stdout"}
    /\ output = ""
    /\ notified = {}

\* One iteration of main's loop: poll_devices, then the sleep.  A panic in
\* send_notification unwinds through poll_devices and main: the process is
\* gone, with the map as the completed updates left it.
Poll ==
    /\ crashed = "no"
    /\ \E hsc_output \in Outputs, sink \in Sinks, stdout_ok \in BOOLEAN :
          \E p \in {poll_devices(config, devices, hsc_output,
                                  sink.fail_at, sink.exit)} :
              /\ devices' = p.devices
              /\ cycle' = p.log
              /\ crashed' = IF p.panicked THEN "notify-send"
                            ELSE IF dump(config, p, stdout_ok) THEN "stdout"
                            ELSE "no"
              /\ output' = shown_output(hsc_output)
              /\ notified' = notified \cup titles(p.log)

\* get_headsetcontrol_output (lines 84-90): .expect panics when headsetcontrol
\* cannot be started.
StatusSourceFails ==
    /\ crashed = "no"
    /\ crashed' = "headsetcontrol"
    /\ cycle' = <<>>
    /\ output' = ""
    /\ UNCHANGED <<devices, notified>>

Next == Poll \/ StatusSourceFails

Spec == Init /\ [][Next]_vars

-----------------------------------------------------------------------------
(* Vocabulary of the properties.  An entry of `cycle` is the processing of *)
(* one chunk; a sighting is an entry whose chunk parsed into a snapshot.   *)

Sighting(e) == e.snapshot # None
Known(e) == Sighting(e) /\ e.old # None
Bodies(e) == {e.sent[k].body : k \in DOMAIN e.sent}
BodySeq(e) == [k \in DOMAIN e.sent |-> e.sent[k].body]
Connected(status) == status \in {"Charging", "Discharging"}
ValidSnapshots ==
    {unwrap(SampleSnapshots[c]) :
        c \in {d \in SampleChunks : SampleSnapshots[d] # None}}

-----------------------------------------------------------------------------
\* C1: whenever a known device's record has a battery level and the snapshot
\* processed for it is Discharging with a strictly smaller level b below
\* battery_threshold, the update sends "Battery level low: b%" and leaves the
\* record with last_notif_battery_level = Some(b).
C1_LowBatteryNotified ==
    \A i \in DOMAIN cycle :
        LET e == cycle[i] IN
        (/\ Known(e)
         /\ unwrap(e.old).battery # None
         /\ unwrap(e.snapshot).battery_status = "Discharging"
         /\ unwrap(e.snapshot).battery # None
         /\ unwrap(unwrap(e.snapshot).battery) < unwrap(unwrap(e.old).battery)
         /\ unwrap(unwrap(e.snapshot).battery) < config.battery_threshold)
        => /\ fmt_level("Battery level low: ",
                        unwrap(unwrap(e.snapshot).battery)) \in Bodies(e)
           /\ e.record # None
           /\ unwrap(e.record).last_notif_battery_level
                  = unwrap(e.snapshot).battery

\* C2: whenever the stored record is Charging or Discharging and the snapshot
\* processed for it is Disconnected, the update sends "Device disconnected"
\* and leaves the record Disconnected with last_notif_battery_level = None.
C2_DisconnectNotified ==
    \A i \in DOMAIN cycle :
        LET e == cycle[i] IN
        (/\ Known(e)
         /\ Connected(unwrap(e.old).battery_status)
         /\ unwrap(e.snapshot).battery_status = "Disconnected")
        => /\ "Device disconnected" \in Bodies(e)
           /\ e.record # None
           /\ unwrap(e.record).battery_status = "Disconnected"
           /\ unwrap(e.record).last_notif_battery_level = None

\* C3: a snapshot whose name has no record sends "New device connected",
\* then "Battery level: b%" exactly when it has a level b, and nothing else;
\* the record inserted is the snapshot with last_notif_battery_level set to
\* its battery.
C3_NewDeviceFlow ==
    \A i \in DOMAIN cycle :
        LET e == cycle[i] IN
        (Sighting(e) /\ e.old = None)
        => LET new == unwrap(e.snapshot) IN
           /\ BodySeq(e) =
                 IF new.battery = None THEN <<"New device connected">>
                 ELSE <<"New device connected",
                        fmt_level("Battery level: ", unwrap(new.battery))>>
           /\ e.record = Some([new EXCEPT !.last_notif_battery_level = new.battery])

\* C4: after a snapshot for an already-known device has been processed, the
\* device's record has the status and the battery of that snapshot.
C4_RecordTracksSighting ==
    \A i \in DOMAIN cycle :
        LET e == cycle[i] IN
        Known(e)
        => /\ e.record # None
           /\ unwrap(e.record).battery_status = unwrap(e.snapshot).battery_status
           /\ unwrap(e.record).battery = unwrap(e.snapshot).battery

\* C5: whenever the stored record is Disconnected and the snapshot processed
\* for it is Charging or Discharging, the update sends "New device
\* connected", followed by "Battery level: b%" if the snapshot has level b.
C5_ReconnectNotified ==
    \A i \in DOMAIN cycle :
        LET e == cycle[i] IN
        (/\ Known(e)
         /\ unwrap(e.old).battery_status = "Disconnected"
         /\ Connected(unwrap(e.snapshot).battery_status))
        => LET new  == unwrap(e.snapshot)
               want == IF new.battery = None THEN <<"New device connected">>
                       ELSE <<"New device connected",
                              fmt_level("Battery level: ", unwrap(new.battery))>>
           IN  /\ Len(e.sent) >= Len(want)
               /\ SubSeq(BodySeq(e), 1, Len(want)) = want

\* C6: once a device's record has last_notif_battery_level present, every
\* snapshot processed for it is stopped by the gate: nothing is sent and the
\* record stays as it is, within the poll that set the field and in every
\* later poll.
C6_GateAbsorbing ==
    /\ [](\A i \in DOMAIN cycle :
            LET e == cycle[i] IN
            (Known(e) /\ unwrap(e.old).last_notif_battery_level # None)
            => e.outcome = "gated" /\ e.sent = <<>> /\ e.record = e.old)
    /\ [][\A n \in DOMAIN devices :
            devices[n].last_notif_battery_level # None
            => /\ n \in DOMAIN devices'
               /\ devices'[n] = devices[n]
               /\ \A i \in DOMAIN cycle' :
                     (Sighting(cycle'[i]) /\ unwrap(cycle'[i].snapshot).name = n)
                     => cycle'[i].sent = <<>>]_vars

\* A record with the field present met a snapshot with another status or
\* another battery level, and the gate stopped it.
C6_Witness ==
    \E i \in DOMAIN cycle :
        LET e == cycle[i] IN
        /\ Known(e)
        /\ unwrap(e.old).last_notif_battery_level # None
        /\ \/ unwrap(e.snapshot).battery_status # unwrap(e.old).battery_status
           \/ unwrap(e.snapshot).battery # unwrap(e.old).battery
        /\ e.outcome = "gated"

\* C7: from every reachable map, for every valid snapshot, a second
\* application of the snapshot right after a completed first one sends
\* nothing; and in the polls that ran, a sighting that repeats the device's
\* previous sighting of the same poll sent nothing.
C7_Idempotent ==
    /\ \A s \in ValidSnapshots, k1 \in Sinks, k2 \in Sinks :
          LET u1 == update_device(config, devices,
                                  new_run(s, 0, k1.fail_at, k1.exit))
              u2 == update_device(config, u1.devices,
                                  new_run(s, 0, k2.fail_at, k2.exit))
          IN  u1.outcome # "panicked" => u2.run.sent = <<>>
    /\ \A i \in DOMAIN cycle, j \in DOMAIN cycle :
          (/\ i < j
           /\ Sighting(cycle[i])
           /\ cycle[j].snapshot = cycle[i].snapshot
           /\ \A k \in (i + 1)..(j - 1) :
                 ~(Sighting(cycle[k])
                   /\ unwrap(cycle[k].snapshot).name = unwrap(cycle[i].snapshot).name))
          => cycle[j].sent = <<>>

\* A snapshot that notified was applied again at once, passed the gate, sent
\* nothing and was stored.
C7_Witness ==
    \E i \in DOMAIN cycle :
        /\ i + 1 \in DOMAIN cycle
        /\ Sighting(cycle[i])
        /\ cycle[i + 1].snapshot = cycle[i].snapshot
        /\ cycle[i].sent # <<>>
        /\ cycle[i + 1].outcome = "inserted"
        /\ cycle[i + 1].sent = <<>>

\* A chunk has a malformed level when one of its lines contains "Level: "
\* and the text handed to parse is no u8.
HasMalformedLevel(chunk) ==
    \E i \in DOMAIN lines(chunk) :
        /\ contains(lines(chunk)[i], LevelLabel)
        /\ parse_u8(level_text(lines(chunk)[i])) = None

MalformedTexts ==
    {SampleTexts[c] : c \in {d \in SampleChunks : HasMalformedLevel(d)}}

\* C8: a chunk with a malformed level does not crash the process and is
\* dropped: no snapshot is processed for it, nothing is sent, no record is
\* touched.
C8_MalformedLevelDropped ==
    \A i \in DOMAIN cycle :
        LET e == cycle[i] IN
        e.chunk \in MalformedTexts
        => ~Sighting(e) /\ e.sent = <<>> /\ e.outcome = "skipped"

\* C9: a notify-send invocation that fails, by a non-zero exit status or by
\* not starting at all, aborts nothing: the update it belongs to runs to its
\* insert and the process goes on polling.
C9_SinkFailureNonFatal ==
    /\ crashed # "notify-send"
    /\ \A i \in DOMAIN cycle :
          LET e == cycle[i] IN
          (\E k \in DOMAIN e.sent : e.sent[k].result # Some(0))
          => e.outcome = "inserted"

\* C10: parse_device returns no snapshot whose name is empty, and the map
\* holds no record under the empty name.
C10_NoEmptyName ==
    /\ <<>> \notin DOMAIN devices
    /\ \A i \in DOMAIN cycle :
          Sighting(cycle[i]) => unwrap(cycle[i].snapshot).name # <<>>

-----------------------------------------------------------------------------
\* C11: whenever a snapshot is processed for a device whose record has a
\* last_notif_battery_level and the record's last_notif_battery_level is
\* different afterwards, the snapshot has a battery level other than the
\* record's or is on the other side of the connected/disconnected boundary.
\* (The gate of lines 137-139 returns before anything is written, so the
\* value never changes at all.)
C11_LastNotifStable ==
    \A i \in DOMAIN cycle :
        LET e == cycle[i] IN
        (/\ Known(e)
         /\ unwrap(e.old).last_notif_battery_level # None
         /\ \/ e.record = None
            \/ unwrap(e.record).last_notif_battery_level
                  # unwrap(e.old).last_notif_battery_level)
        => \/ unwrap(e.snapshot).battery # unwrap(e.old).battery
           \/ Connected(unwrap(e.snapshot).battery_status)
                 # Connected(unwrap(e.old).battery_status)

\* A record with a last_notif_battery_level met a snapshot with the same
\* battery level and status, and kept its last_notif_battery_level.
C11_Witness ==
    \E i \in DOMAIN cycle :
        LET e == cycle[i] IN
        /\ Known(e)
        /\ unwrap(e.old).last_notif_battery_level # None
        /\ unwrap(e.snapshot).battery = unwrap(e.old).battery
        /\ unwrap(e.snapshot).battery_status = unwrap(e.old).battery_status
        /\ e.record # None
        /\ unwrap(e.record).last_notif_battery_level
              = unwrap(e.old).last_notif_battery_level

-----------------------------------------------------------------------------
\* The body the decision table of C12 allots to a stored record and a
\* snapshot: None where it allots nothing, which includes every pair of
\* which either has no battery level.
B2_row(old_device, new_device) ==
    LET o == unwrap(old_device.battery)
        n == unwrap(new_device.battery)
    IN  IF old_device.battery = None \/ new_device.battery = None THEN None
        ELSE IF new_device.battery_status = "Discharging" /\ n < o
        THEN IF n < config.battery_threshold
             THEN Some("Battery level low: " \o ToString(n) \o "%")
             ELSE IF n % 5 = 0
             THEN Some("Battery level: " \o ToString(n) \o "%")
             ELSE None
        ELSE IF new_device.battery_status = "Charging" /\ n > o
        THEN IF n = 100
             THEN Some("Battery level full: " \o ToString(n) \o "%")
             ELSE IF n % 5 = 0
             THEN Some("Charging " \o ToString(n) \o "%")
             ELSE None
        ELSE None

\* C12: for every record in the registry whose last_notif_battery_level is
\* absent and every snapshot of that device, the battery sub-decision B2
\* (run after B1 on whatever B1 left) does the following.  When the record
\* and the snapshot both have a battery level and the table allots a body,
\* it invokes notify-send exactly once, with that body, and sets
\* last_notif_battery_level to the new level.  In every other case (either
\* battery level absent, level unchanged, level moving against the status,
\* status Disconnected, not a multiple of 5) it invokes nothing and leaves
\* last_notif_battery_level as B1 left it.
C12_BatteryTable ==
    \A new_device \in ValidSnapshots, sink \in Sinks :
        (/\ new_device.name \in DOMAIN devices
         /\ devices[new_device.name].last_notif_battery_level = None)
        => LET old_device == devices[new_device.name]
               r1  == handle_device_status_change(old_device,
                          new_run(new_device, 0, sink.fail_at, sink.exit))
               r2  == handle_battery_level_change(config, old_device, r1)
               row == B2_row(old_device, new_device)
               added == SubSeq(r2.sent, Len(r1.sent) + 1, Len(r2.sent))
           IN  r1.panicked
               \/ IF row = None
                  THEN /\ added = <<>>
                       /\ r2.device.last_notif_battery_level
                             = r1.device.last_notif_battery_level
                  ELSE /\ Len(added) = 1
                       /\ added[1].body = unwrap(row)
                       /\ added[1].title = new_device.name
                       /\ r2.device.last_notif_battery_level
                             = new_device.battery

\* A record without last_notif_battery_level and with battery 11 met a
\* Discharging snapshot at 9: "Battery level low: 9%" was sent and the
\* record written has last_notif_battery_level 9.
C12_Witness ==
    \E i \in DOMAIN cycle :
        LET e == cycle[i] IN
        /\ Known(e)
        /\ unwrap(e.old).last_notif_battery_level = None
        /\ unwrap(e.old).battery = Some(11)
        /\ unwrap(e.snapshot).battery_status = "Discharging"
        /\ unwrap(e.snapshot).battery = Some(9)
        /\ B2_row(unwrap(e.old), unwrap(e.snapshot))
              = Some("Battery level low: 9%")
        /\ "Battery level low: 9%" \in Bodies(e)
        /\ e.outcome = "inserted"
        /\ unwrap(e.record).last_notif_battery_level = Some(9)

-----------------------------------------------------------------------------
\* A notification that carries a battery level, as opposed to the two
\* connection notices.
LevelNotice(cmd) ==
    cmd.body \notin {"New device connected", "Device disconnected"}

\* C13: while one snapshot is processed, no two notify-send invocations have
\* the same title and body, and at most one invocation carries a battery
\* level (the follow-up of B1 and a notification of B2 never both occur).
C13_NoDuplicate ==
    \A i \in DOMAIN cycle :
        LET e == cycle[i] IN
        \A j, k \in DOMAIN e.sent :
            j < k => /\ ~(/\ e.sent[j].title = e.sent[k].title
                          /\ e.sent[j].body = e.sent[k].body)
                     /\ ~(LevelNotice(e.sent[j]) /\ LevelNotice(e.sent[k]))

-----------------------------------------------------------------------------
\* The titles notify-send had been invoked with when the poll that produced
\* log came to its i-th chunk: those of the earlier polls and those of the
\* earlier chunks of this one.
NotifiedBefore(before, log, i) == before \cup titles(SubSeq(log, 1, i - 1))

\* C14: a known device's snapshot passes the gate only when the stored
\* last_notif_battery_level is absent, and once notify-send has been invoked
\* for a device every later snapshot of it is stopped by the gate.
C14_NotifiedMeansGated ==
    [][\A i \in DOMAIN cycle' :
          LET e == cycle'[i] IN
          Known(e) =>
            /\ e.outcome # "gated"
                  => unwrap(e.old).last_notif_battery_level = None
            /\ unwrap(e.snapshot).name \in NotifiedBefore(notified, cycle', i)
                  => e.outcome = "gated"]_vars

\* C14 amended: a known device's snapshot is stopped by the gate exactly when
\* the stored last_notif_battery_level is present, which requires that
\* notify-send has been invoked for the device before; a device notified
\* without a level being recorded ("New device connected" for a device that
\* reports no level, "Device disconnected") is let through.
C14_GatedIffLastPresent ==
    [][\A i \in DOMAIN cycle' :
          LET e == cycle'[i] IN
          Known(e) =>
            /\ e.outcome = "gated"
                  <=> unwrap(e.old).last_notif_battery_level # None
            /\ unwrap(e.snapshot).name \in NotifiedBefore(notified, cycle', i)]_vars

\* In one poll a device already notified (announced without a level) passed
\* the gate and its record was written, and another, whose level had been
\* notified, was stopped by the gate.
C14_Witness ==
    /\ \E i \in DOMAIN cycle :
          LET e == cycle[i] IN
          /\ Known(e)
          /\ unwrap(e.snapshot).name \in NotifiedBefore({}, cycle, i) \cup notified
          /\ unwrap(e.old).last_notif_battery_level = None
          /\ e.outcome = "inserted"
    /\ \E i \in DOMAIN cycle :
          LET e == cycle[i] IN
          /\ Known(e)
          /\ unwrap(e.old).last_notif_battery_level # None
          /\ e.outcome = "gated"

-----------------------------------------------------------------------------
\* The invocations after which the code has assigned last_notif_battery_level:
\* every notification with a level (B1's follow-up, B2) and the disconnect
\* notice, which is sent after the field has been cleared.
SetsLast(e) ==
    \E k \in DOMAIN e.sent :
        LevelNotice(e.sent[k]) \/ e.sent[k].body = "Device disconnected"

\* C15: when a known device's snapshot passes the gate, its record is
\* written and neither B1 nor B2 has assigned last_notif_battery_level, the
\* record written has the name, status and battery level of the snapshot and
\* the last_notif_battery_level of the old record.
C15_CarryOver ==
    \A i \in DOMAIN cycle :
        LET e == cycle[i] IN
        (Known(e) /\ e.outcome = "inserted" /\ ~SetsLast(e))
        => e.record =
              Some([unwrap(e.snapshot) EXCEPT
                       !.last_notif_battery_level =
                           unwrap(e.old).last_notif_battery_level])

\* A known device's snapshot with another battery level passed the gate
\* without a notification, and the record took the level and kept the
\* last_notif_battery_level.
C15_Witness ==
    \E i \in DOMAIN cycle :
        LET e == cycle[i] IN
        /\ Known(e) /\ e.outcome = "inserted" /\ e.sent = <<>>
        /\ unwrap(e.snapshot).battery # unwrap(e.old).battery
        /\ unwrap(e.record).battery = unwrap(e.snapshot).battery
        /\ unwrap(e.record).last_notif_battery_level
              = unwrap(e.old).last_notif_battery_level

-----------------------------------------------------------------------------
\* The texts of the chunks of the sample output whose text is t, in the
\* order in which they stand in it.
ChunkTexts(t) ==
    LET o == CHOOSE x \in Outputs : OutputTexts[x] = t
    IN  [i \in DOMAIN SampleChunkLists[o] |-> SampleTexts[SampleChunkLists[o][i]]]

\* Whether the bodies sent for one snapshot stand in the order B1, B2: a
\* connection notice can only come first, "Device disconnected" is followed
\* by nothing, and of three invocations the first is "New device connected"
\* and the other two carry levels (B1's follow-up, then B2).
B1ThenB2(e) ==
    /\ Len(e.sent) <= 3
    /\ \A k \in DOMAIN e.sent : ~LevelNotice(e.sent[k]) => k = 1
    /\ (e.sent # <<>> /\ e.sent[1].body = "Device disconnected")
          => Len(e.sent) = 1
    /\ Len(e.sent) = 3 => e.sent[1].body = "New device connected"
    /\ (Len(e.sent) >= 2 /\ e.sent[1].body = "New device connected")
          => e.sent[2].body
                = fmt_level("Battery level: ", unwrap(unwrap(e.snapshot).battery))

\* C16: in every poll the chunks are processed in the order in which they
\* stand in the output (all of them unless notify-send could not be started),
\* the notify-send invocations are numbered 1, 2, ... through the entries in
\* that order, so that every invocation for an earlier chunk precedes every
\* invocation for a later one, and within one snapshot B1's notifications
\* ("New device connected", then its "Battery level" follow-up) precede
\* B2's.  A poll is one step: its invocations all follow those of the poll
\* before.
C16_Ordering ==
    /\ Len(cycle) <= Len(ChunkTexts(output))
    /\ \A i \in DOMAIN cycle : cycle[i].chunk = ChunkTexts(output)[i]
    /\ crashed = "no" => Len(cycle) = Len(ChunkTexts(output))
    /\ \A i \in DOMAIN cycle :
          LET e      == cycle[i]
              before == Cardinality(
                          UNION {{<<j, k>> : k \in DOMAIN cycle[j].sent} :
                                    j \in 1..(i - 1)})
          IN  /\ \A k \in DOMAIN e.sent : e.sent[k].seq = before + k
              /\ B1ThenB2(e)

\* A poll of two different chunks sent one notification for the first and,
\* after it, "New device connected" and the follow-up for the second.
C16_Witness ==
    /\ Len(cycle) = 2
    /\ cycle[1].chunk # cycle[2].chunk
    /\ cycle[1].sent # <<>>
    /\ Len(cycle[2].sent) = 2
    /\ cycle[2].sent[1].body = "New device connected"
    /\ cycle[2].sent[2].seq = Len(cycle[1].sent) + 2

-----------------------------------------------------------------------------
\* C17: no record of the registry has status Disconnected and no battery
\* level.
C17_DisconnectedHasBattery ==
    \A n \in DOMAIN devices :
        ~(/\ devices[n].battery_status = "Disconnected"
          /\ devices[n].battery = None)

\* A block with neither a status marker nor a Level line was read and
\* skipped while the registry holds a Disconnected record, which has a
\* battery level.
C17_Witness ==
    /\ \E i \in DOMAIN cycle :
          /\ cycle[i].chunk = shown(Block(NameH, StatusUnavailable, None))
          /\ cycle[i].outcome = "skipped"
    /\ \E n \in DOMAIN devices :
          /\ devices[n].battery_status = "Disconnected"
          /\ devices[n].battery # None

-----------------------------------------------------------------------------
\* The bodies that print a level between 0 and 100.
PercentBodies ==
    {fmt_level(content, b) :
        content \in {"Battery level: ", "Battery level low: ",
                     "Battery level full: ", "Charging "},
        b \in 0..100}

\* C18: every battery level and every last_notif_battery_level of a record
\* of the registry is an integer from 0 to 100, and so is every level
\* printed in a notification.
C18_LevelInRange ==
    /\ \A n \in DOMAIN devices :
          /\ devices[n].battery # None => unwrap(devices[n].battery) \in 0..100
          /\ devices[n].last_notif_battery_level # None
                => unwrap(devices[n].last_notif_battery_level) \in 0..100
    /\ \A i \in DOMAIN cycle : \A k \in DOMAIN cycle[i].sent :
          LevelNotice(cycle[i].sent[k]) => cycle[i].sent[k].body \in PercentBodies

-----------------------------------------------------------------------------
\* C19: in every record of the registry a present last_notif_battery_level
\* is the record's battery level.
C19_LastNotifIsBattery ==
    \A n \in DOMAIN devices :
        devices[n].last_notif_battery_level # None
        => devices[n].last_notif_battery_level = devices[n].battery

\* A level was notified for a known device whose old record had another
\* level, and the record written has the snapshot's level both as battery
\* level and as last_notif_battery_level.
C19_Witness ==
    \E i \in DOMAIN cycle :
        LET e == cycle[i] IN
        /\ Known(e) /\ e.outcome = "inserted"
        /\ unwrap(e.old).battery # None
        /\ unwrap(e.old).battery # unwrap(e.snapshot).battery
        /\ unwrap(e.record).last_notif_battery_level # None
        /\ devices[unwrap(e.snapshot).name] = unwrap(e.record)
        /\ unwrap(e.record).last_notif_battery_level = unwrap(e.record).battery

-----------------------------------------------------------------------------
\* What update_device may do to the registry devs when it processes
\* new_device and ends with u: no key is removed, no key other than the
\* snapshot's name is added, every record under another key is as it was,
\* and every notify-send invocation has the snapshot's name as title.
Framed(devs, new_device, u) ==
    /\ DOMAIN devs \subseteq DOMAIN u.devices
    /\ DOMAIN u.devices \subseteq DOMAIN devs \cup {new_device.name}
    /\ \A k \in DOMAIN devs \ {new_device.name} : u.devices[k] = devs[k]
    /\ \A k \in DOMAIN u.run.sent : u.run.sent[k].title = new_device.name

\* C20: processing a snapshot for name N changes at most the registry entry
\* keyed N, removes no key, and sends only notifications titled N.  This
\* holds for every sample snapshot applied to the registry of every state,
\* and for every poll that is taken: a key whose record differs afterwards,
\* or is new, is the name of a snapshot of that poll, and the invocations
\* of every entry bear its snapshot's name.
C20_Frame ==
    /\ [](\A new_device \in ValidSnapshots, sink \in Sinks :
             Framed(devices, new_device,
                    update_device(config, devices,
                        new_run(new_device, 0, sink.fail_at, sink.exit))))
    /\ [][/\ DOMAIN devices \subseteq DOMAIN devices'
          /\ \A n \in DOMAIN devices' :
                (n \notin DOMAIN devices \/ devices'[n] # devices[n])
                => \E i \in DOMAIN cycle' :
                      /\ Sighting(cycle'[i])
                      /\ unwrap(cycle'[i].snapshot).name = n
          /\ \A i \in DOMAIN cycle' : \A k \in DOMAIN cycle'[i].sent :
                cycle'[i].sent[k].title = unwrap(cycle'[i].snapshot).name]_vars

\* With another device in the registry, a snapshot was processed that sent
\* a notification and whose record was written.
C20_Witness ==
    \E i \in DOMAIN cycle :
        LET e == cycle[i] IN
        /\ Sighting(e) /\ e.outcome = "inserted" /\ e.sent # <<>>
        /\ e.record # e.old
        /\ \E n \in DOMAIN devices :
              /\ n # unwrap(e.snapshot).name
              /\ \A j \in DOMAIN cycle :
                    Sighting(cycle[j]) => unwrap(cycle[j].snapshot).name # n

=============================================================================
